---- MODULE Spec2Model ----
(***************************************************************************)
(* Model of tuomas56/weather: the forecast extractor (raw.rs,              *)
(* get_forecast), the resampler (main.rs, Mixer) and the query-time        *)
(* generation of the command line (main.rs, TimeRange and cli_main).       *)
(*                                                                         *)
(* Times of day (chrono::NaiveTime) are whole minutes since midnight.      *)
(* Forecast numbers are IEEE-754 binary32 values (Rust f32), modelled      *)
(* bit-exactly for non-negative, normal values: [m |-> mantissa,           *)
(* e |-> exponent] stands for m * 2^e with m = 0 or 2^23 <= m < 2^24, and  *)
(* every operation rounds to nearest, ties to even, as the hardware does.  *)
(***************************************************************************)
EXTENDS Integers, Sequences, FiniteSets, TLC

(***************************************************************************)
(* f32 arithmetic                                                          *)
(***************************************************************************)
Pow2(n) == 2 ^ n

F32Zero == [m |-> 0, e |-> 0]

RECURSIVE BitLen(_)
BitLen(n) == IF n = 0 THEN 0 ELSE 1 + BitLen(n \div 2)

\* The f32 nearest to M * 2^E (plus, when sticky, a positive amount below
\* the lowest bit of M); round to nearest, ties to even.
F32Round(M, E, sticky) ==
    IF M = 0 THEN F32Zero
    ELSE LET k == BitLen(M) - 24 IN
         IF k <= 0 THEN [m |-> M * Pow2(0 - k), e |-> E + k]
         ELSE LET q    == M \div Pow2(k)
                  r    == M % Pow2(k)
                  half == Pow2(k - 1)
                  up   == \/ r > half
                          \/ r = half /\ sticky
                          \/ r = half /\ ~sticky /\ q % 2 = 1
                  q1   == IF up THEN q + 1 ELSE q
              IN  IF q1 = Pow2(24) THEN [m |-> Pow2(23), e |-> E + k + 1]
                  ELSE [m |-> q1, e |-> E + k]

\* `n as f32` for a non-negative integer n
F32FromInt(n) == F32Round(n, 0, FALSE)

F32One == F32FromInt(1)

\* x < y on non-negative f32
F32Less(x, y) ==
    IF y.m = 0 THEN FALSE
    ELSE IF x.m = 0 THEN TRUE
    ELSE x.e < y.e \/ (x.e = y.e /\ x.m < y.m)

F32Leq(x, y) == x = y \/ F32Less(x, y)

\* f32::max
F32Max(x, y) == IF F32Less(x, y) THEN y ELSE x

F32Min(x, y) == IF F32Less(y, x) THEN y ELSE x

\* x + y on non-negative f32: the smaller operand is aligned with three
\* guard bits and a sticky bit.
F32Add(x, y) ==
    IF x.m = 0 THEN y
    ELSE IF y.m = 0 THEN x
    ELSE LET hi == IF x.e >= y.e THEN x ELSE y
             lo == IF x.e >= y.e THEN y ELSE x
             d  == IF hi.e - lo.e > 30 THEN 30 ELSE hi.e - lo.e
             sh == (lo.m * 8) \div Pow2(d)
             st == (lo.m * 8) % Pow2(d) # 0
         IN  F32Round(hi.m * 8 + sh, hi.e - 3, st)

\* x - y on f32 with x >= y >= 0
F32Sub(x, y) ==
    IF y.m = 0 THEN x
    ELSE LET d  == IF x.e - y.e > 30 THEN 30 ELSE x.e - y.e
             sh == (y.m * 8) \div Pow2(d)
             st == (y.m * 8) % Pow2(d) # 0
         IN  IF st THEN F32Round(x.m * 8 - sh - 1, x.e - 3, TRUE)
             ELSE F32Round(x.m * 8 - sh, x.e - 3, FALSE)

\* x * y on non-negative f32: the 48-bit product of the mantissas is formed
\* from 12-bit halves, then rounded.
F32Mul(x, y) ==
    IF x.m = 0 \/ y.m = 0 THEN F32Zero
    ELSE LET xh   == x.m \div 4096
             xl   == x.m % 4096
             yh   == y.m \div 4096
             yl   == y.m % 4096
             mid  == xh * yl + xl * yh
             low  == (mid % 4096) * 4096 + xl * yl
             lo   == low % Pow2(24)
             hi   == xh * yh + mid \div 4096 + low \div Pow2(24)
         IN  F32Round(hi * 64 + lo \div Pow2(18), x.e + y.e + 18,
                      lo % Pow2(18) # 0)

RECURSIVE LongDiv(_, _, _, _)
LongDiv(rem, den, n, acc) ==
    IF n = 0 THEN <<acc, rem>>
    ELSE IF 2 * rem >= den THEN LongDiv(2 * rem - den, den, n - 1, 2 * acc + 1)
    ELSE LongDiv(2 * rem, den, n - 1, 2 * acc)

\* x / y on non-negative f32, y # 0: 26 quotient bits by long division, the
\* remainder as the sticky bit.
F32Div(x, y) ==
    IF x.m = 0 THEN F32Zero
    ELSE LET qr == LongDiv(x.m % y.m, y.m, 26, x.m \div y.m)
         IN  F32Round(qr[1], x.e - y.e - 26, qr[2] # 0)

(***************************************************************************)
(* raw.rs: Forecast                                                        *)
(***************************************************************************)
\* #[derive(Default)]: zero for the numbers, "" for the strings
ForecastDefault ==
    [status |-> "", precipitation |-> F32Zero, temperature |-> F32Zero,
     feels_like |-> F32Zero, wind_speed |-> F32Zero, wind_direction |-> "",
     wind_gust |-> F32Zero, visibility |-> F32Zero, humidity |-> F32Zero,
     uv_index |-> F32Zero]

MkForecast(st, p, t, fl, ws, wd, wg, vis, h, uv) ==
    [status |-> st, precipitation |-> F32FromInt(p),
     temperature |-> F32FromInt(t), feels_like |-> F32FromInt(fl),
     wind_speed |-> F32FromInt(ws), wind_direction |-> wd,
     wind_gust |-> F32FromInt(wg), visibility |-> F32FromInt(vis),
     humidity |-> F32FromInt(h), uv_index |-> F32FromInt(uv)]

\* Option<T>
None == <<>>
Some(v) == <<v>>

(***************************************************************************)
(* Inputs of the resampler                                                 *)
(***************************************************************************)
\* longest Vec handed to Mixer::new
MaxLen == 3

Hour(h) == 60 * h

\* times of day of the observed records, and the times queried
ObservedTimes == {Hour(8), Hour(9), Hour(12)}
QueryTimes == {Hour(7), Hour(8), Hour(9), Hour(10), Hour(12), Hour(13)}

SampleForecasts ==
    { MkForecast("Sunny",    10, 12, 10, 5, "N",  8,  20, 50, 1),
      MkForecast("Rain",     30, 18, 20, 9, "SW", 14, 7,  80, 3),
      MkForecast("Cloudy",   15, 11, 9,  7, "E",  10, 12, 65, 2),
      MkForecast("Overcast", 15, 13, 12, 6, "W",  9,  15, 70, 0) }

RECURSIVE SeqsUpTo(_, _)
SeqsUpTo(S, n) ==
    IF n = 0 THEN {<<>>}
    ELSE LET shorter == SeqsUpTo(S, n - 1)
         IN  shorter \cup {Append(s, x) : s \in shorter, x \in S}

(***************************************************************************)
(* Inputs of the extractor: the parsed forecast page                       *)
(***************************************************************************)
\* most .forecast-day containers in a page, most time-axis headers in a
\* day, most nodes one field selector finds in a day
MaxDays == 2
MaxTimes == 2
MaxNodes == 3

\* the ten fields in the order get_forecast populates them
Fields ==
    <<"status", "precipitation", "temperature", "feels_like", "wind_speed",
      "wind_direction", "wind_gust", "visibility", "humidity", "uv_index">>

FieldSet == {Fields[k] : k \in 1..Len(Fields)}

AttrFields == FieldSet \ {"precipitation", "humidity"}
TextFields == {"status", "wind_direction"}

\* A node is [attr |-> the attribute the code reads (title, data-value,
\* data-time), None when absent, html |-> its inner_html].
Node(a, h) == [attr |-> a, html |-> h]

Pick(s, j) == s[((j - 1) % Len(s)) + 1]

\* what a well-formed page holds at position j of a field's node list
GoodNode(f, j) ==
    IF f = "status" THEN Node(Some(Pick(<<"Sunny", "Rain", "Cloudy">>, j)), "")
    ELSE IF f = "wind_direction" THEN Node(Some(Pick(<<"N", "SW", "E">>, j)), "")
    ELSE IF f = "precipitation" THEN Node(None, Pick(<<"40%", "&lt;5%", " 60% ">>, j))
    ELSE IF f = "humidity" THEN Node(None, Pick(<<"80%", " 60% ", "40%">>, j))
    ELSE Node(Some(Pick(<<"7", "12", "3">>, j)), "")

\* malformed nodes
BadNodes(f) ==
    IF f \in TextFields THEN {Node(None, "")}
    ELSE IF f = "precipitation" THEN {Node(None, "n/a%"), Node(None, "n/a")}
    ELSE IF f = "humidity"
         THEN {Node(None, "n/a%"), Node(None, "n/a"), Node(None, "&lt;5%")}
    ELSE {Node(None, ""), Node(Some("n/a"), "")}

GoodList(f, n) == [j \in 1..n |-> GoodNode(f, j)]

\* node lists of a field: any length up to MaxNodes, at most one malformed
FieldLists(f) ==
    UNION { {GoodList(f, n)} \cup
            {[GoodList(f, n) EXCEPT ![p] = b] : p \in 1..n, b \in BadNodes(f)}
          : n \in 0..MaxNodes }

\* ids of the day containers by position (not in date order) and the
\* data-time values of the time axis by position (not in time order)
DayIds == <<"2022-01-11", "2022-01-10", "2022-01-12">>
AxisTimes == <<"12:00", "09:00", "15:00">>

BadIds == {None, Some("today")}
BadTimes == {Node(None, ""), Node(Some("noon"), "")}

\* a well-formed day: n time headers and n nodes for every field
RegularDay(d, n) ==
    [id    |-> Some(Pick(DayIds, d)),
     times |-> [j \in 1..n |-> Node(Some(Pick(AxisTimes, j)), "")],
     nodes |-> [f \in FieldSet |-> GoodList(f, n)]]

RegularDoc(ns) == [d \in 1..Len(ns) |-> RegularDay(d, ns[d])]

\* the axis lengths of a page's days
AxisLengths == SeqsUpTo(0..MaxTimes, MaxDays)

\* the pages with the axis lengths ns: the well-formed one, and those with
\* one day whose id, one time header or one field's node list is not what
\* the well-formed page holds
Docs(ns) ==
    LET base == RegularDoc(ns) IN
    {base}
    \cup {[base EXCEPT ![d].id = b] : d \in 1..Len(ns), b \in BadIds}
    \cup UNION {{[base EXCEPT ![d].times[p] = b] : p \in 1..ns[d], b \in BadTimes}
                : d \in 1..Len(ns)}
    \cup UNION {{[base EXCEPT ![d].nodes[f] = l] : l \in FieldLists(f)}
                : d \in 1..Len(ns), f \in FieldSet}

(***************************************************************************)
(* raw.rs: get_forecast                                                    *)
(***************************************************************************)
\* Result<T>, and the panic that unwinds out of the function
Ok(v) == [kind |-> "Ok", value |-> v]
Err(msg) == [kind |-> "Err", value |-> msg]
Panic(msg) == [kind |-> "Panic", value |-> msg]

\* str::trim
trim(s) == IF s = " 60% " THEN "60%" ELSE s

\* str::strip_suffix('%')
strip_suffix(s) ==
    IF s = "40%" THEN Some("40")
    ELSE IF s = "60%" THEN Some("60")
    ELSE IF s = "80%" THEN Some("80")
    ELSE IF s = "&lt;5%" THEN Some("&lt;5")
    ELSE IF s = "n/a%" THEN Some("n/a")
    ELSE None

unwrap_or(o, dflt) == IF o = None THEN dflt ELSE o[1]

\* str::parse::<f32>
parse_f32(s) ==
    IF s = "0.0" THEN Ok(F32Zero)
    ELSE IF s = "3" THEN Ok(F32FromInt(3))
    ELSE IF s = "7" THEN Ok(F32FromInt(7))
    ELSE IF s = "12" THEN Ok(F32FromInt(12))
    ELSE IF s = "40" THEN Ok(F32FromInt(40))
    ELSE IF s = "60" THEN Ok(F32FromInt(60))
    ELSE IF s = "80" THEN Ok(F32FromInt(80))
    ELSE Err("invalid float literal")

\* NaiveTime::parse_from_str(s, "%H:%M"), in minutes since midnight
parse_time(s) ==
    IF s = "09:00" THEN Ok(Hour(9))
    ELSE IF s = "12:00" THEN Ok(Hour(12))
    ELSE IF s = "15:00" THEN Ok(Hour(15))
    ELSE Err("input contains invalid characters")

\* NaiveDate::parse_from_str(id, "%Y-%m-%d")
parse_date(s) ==
    IF s = "2022-01-10" THEN Ok(<<2022, 1, 10>>)
    ELSE IF s = "2022-01-11" THEN Ok(<<2022, 1, 11>>)
    ELSE IF s = "2022-01-12" THEN Ok(<<2022, 1, 12>>)
    ELSE Err("input contains invalid characters")

\* the f32 literals 1.8, 32.0, 2.237 and 3.6
F32_1_8 == [m |-> 15099494, e |-> -23]
F32_32 == F32FromInt(32)
F32_2_237 == [m |-> 9382658, e |-> -22]
F32_3_6 == [m |-> 15099494, e |-> -22]

convert_temp(t, fu) == IF fu THEN F32Add(F32Mul(t, F32_1_8), F32_32) ELSE t

convert_speed(sp, fu) == IF fu THEN F32Mul(sp, F32_2_237) ELSE F32Mul(sp, F32_3_6)

\* value.attr(name).context(msg)?
attr(node, msg) == IF node.attr = None THEN Err(msg) ELSE Ok(node.attr[1])

\* attr("data-value") then parse()?
attr_f32(node, msg) ==
    IF node.attr = None THEN Err(msg) ELSE parse_f32(node.attr[1])

\* inner_html().trim().strip_suffix('%').unwrap_or("0.0")
percent_text(node) == unwrap_or(strip_suffix(trim(node.html)), "0.0")

\* `convert(..)` applied under a `?`
MapOk(r, fu, temp) ==
    IF r.kind = "Err" THEN r
    ELSE IF temp THEN Ok(convert_temp(r.value, fu))
    ELSE Ok(convert_speed(r.value, fu))

\* The value one loop body computes for a node of field f before it is
\* stored, or the error its `?` returns.
FieldValue(f, node, fu) ==
    IF f = "status" THEN attr(node, "can't find title in step-symbol")
    ELSE IF f = "precipitation" THEN
        IF percent_text(node) = "&lt;5" THEN Ok(F32Zero)
        ELSE parse_f32(percent_text(node))
    ELSE IF f = "temperature" THEN
        MapOk(attr_f32(node, "can't find data-value in step-temp"), fu, TRUE)
    ELSE IF f = "feels_like" THEN
        MapOk(attr_f32(node, "can't find data-value in step-feels-like"), fu, TRUE)
    ELSE IF f = "wind_speed" THEN
        MapOk(attr_f32(node, "can't find data-value in step-wind-speed"), fu, FALSE)
    ELSE IF f = "wind_direction" THEN
        attr(node, "can't find data-value in step-wind-direction")
    ELSE IF f = "wind_gust" THEN
        MapOk(attr_f32(node, "can't find data-value in step-wind-gust"), fu, FALSE)
    ELSE IF f = "visibility" THEN
        attr_f32(node, "can't find data-value in step-visibility")
    ELSE IF f = "humidity" THEN parse_f32(percent_text(node))
    ELSE attr_f32(node, "can't find data-value in step-uv")

\* the one element of a singleton; {e : x \in {v}} binds x to the value of v
Only(S) == CHOOSE x \in S : TRUE

\* One `for (i, node) in day.select(..).enumerate()` loop from index i on
\* (i counts from 0): the value is computed first, its error returned; then
\* forecasts[i] is indexed, which panics when i is not below its length.
RECURSIVE PopulateField(_, _, _, _, _)
PopulateField(forecasts, f, nodes, i, fu) ==
    IF i = Len(nodes) THEN Ok(forecasts)
    ELSE Only({ IF v.kind = "Err" THEN v
                ELSE IF i >= Len(forecasts) THEN Panic("index out of bounds")
                ELSE Only({ PopulateField(next, f, nodes, i + 1, fu)
                            : next \in {[forecasts EXCEPT ![i + 1][f] = v.value]} })
              : v \in {FieldValue(f, nodes[i + 1], fu)} })

\* the ten loops, from the n-th on
RECURSIVE PopulateFrom(_, _, _, _)
PopulateFrom(forecasts, day, n, fu) ==
    IF n > Len(Fields) THEN Ok(forecasts)
    ELSE Only({ IF r.kind # "Ok" THEN r ELSE PopulateFrom(r.value, day, n + 1, fu)
              : r \in {PopulateField(forecasts, Fields[n], day.nodes[Fields[n]], 0, fu)} })

\* the loop over day.select(&time_selector), from index i on
RECURSIVE ReadTimes(_, _, _)
ReadTimes(nodes, i, axis) ==
    IF i = Len(nodes) THEN Ok(axis)
    ELSE IF nodes[i + 1].attr = None THEN Err("can't find data-time in step-time")
    ELSE Only({ IF tm.kind = "Err" THEN tm
                ELSE Only({ReadTimes(nodes, i + 1, next) : next \in {Append(axis, tm.value)}})
              : tm \in {parse_time(nodes[i + 1].attr[1])} })

\* vec![Forecast::default(); times.len()]
DefaultForecasts(n) == [j \in 1..n |-> ForecastDefault]

\* a faulty variant: the last pair dropped
ZipDropLast(axis, forecasts) ==
    LET n == IF Len(axis) < Len(forecasts) THEN Len(axis) ELSE Len(forecasts)
    IN  [j \in 1..(IF n = 0 THEN 0 ELSE n - 1) |-> <<axis[j], forecasts[j]>>]

\* times.into_iter().zip(forecasts).collect()
Zip(axis, forecasts) ==
    LET n == IF Len(axis) < Len(forecasts) THEN Len(axis) ELSE Len(forecasts)
    IN  [j \in 1..n |-> <<axis[j], forecasts[j]>>]

\* the rest of the loop body once the date is parsed
ExtractRecords(date, day, fu) ==
    Only({ IF axis.kind = "Err" THEN axis
           ELSE Only({ IF fs.kind # "Ok" THEN fs
                       ELSE Ok(<<date, Zip(axis.value, fs.value)>>)
                     : fs \in {PopulateFrom(DefaultForecasts(Len(axis.value)),
                                            day, 1, fu)} })
         : axis \in {ReadTimes(day.times, 0, <<>>)} })

\* the body of `for day in doc.select(&day_selector)`: the pair pushed to
\* results, or the error or panic that ends get_forecast
ExtractDay(day, fu) ==
    IF day.id = None THEN Err("can't find id of forecast-day")
    ELSE IF parse_date(day.id[1]).kind = "Err" THEN parse_date(day.id[1])
    ELSE ExtractRecords(parse_date(day.id[1]).value, day, fu)

RECURSIVE ExtractFrom(_, _, _, _)
ExtractFrom(d, i, results, fu) ==
    IF i > Len(d) THEN Ok(results)
    ELSE Only({ IF r.kind # "Ok" THEN r
                ELSE Only({ExtractFrom(d, i + 1, acc, fu) : acc \in {Append(results, r.value)}})
              : r \in {ExtractDay(d[i], fu)} })

\* get_forecast on the parsed page d
get_forecast(d, fu) == ExtractFrom(d, 1, <<>>, fu)

(***************************************************************************)
(* main.rs: Mixer                                                          *)
(***************************************************************************)
\* a faulty variant: the element goes before the last one without comparing
SortedInsertUncompared(s, p) ==
    IF s = <<>> THEN <<p>>
    ELSE Append(Append(SubSeq(s, 1, Len(s) - 1), p), s[Len(s)])

\* Vec::sort_by_key is a stable sort: an element goes after every element
\* whose key is not greater.
RECURSIVE SortedInsert(_, _)
SortedInsert(s, p) ==
    IF s = <<>> THEN <<p>>
    ELSE IF s[Len(s)][1] <= p[1] THEN Append(s, p)
    ELSE Append(SortedInsert(SubSeq(s, 1, Len(s) - 1), p), s[Len(s)])

RECURSIVE sort_by_key(_)
sort_by_key(s) ==
    IF s = <<>> THEN <<>>
    ELSE SortedInsert(sort_by_key(SubSeq(s, 1, Len(s) - 1)), s[Len(s)])

\* Mixer::new
new(d) == sort_by_key(d)

\* slice::binary_search_by_key on a slice sorted by key: Ok(i) for an index
\* holding the key (any one of them when several do), else Err(i) with i the
\* index where the key could be inserted keeping the order.  Indices count
\* from 0 as in the source.
binary_search_by_key(d, t) ==
    LET hits == {i \in 1..Len(d) : d[i][1] = t}
    IN  IF hits # {}
        THEN {[ok |-> TRUE, idx |-> i - 1] : i \in hits}
        ELSE {[ok |-> FALSE, idx |-> Cardinality({i \in 1..Len(d) : d[i][1] < t})]}

\* a faulty variant: the guard tested on Ok(idx) as well
OutOfRangeArmAnyResult(r, len) == r.idx = 0 \/ r.idx = len

\* the first match arm: Err(idx) if idx == 0 || idx == self.data.len()
OutOfRangeArm(r, len) == ~r.ok /\ (r.idx = 0 \/ r.idx = len)

\* a faulty variant: the weights exchanged
MixSwapped(t, x, y) == F32Add(F32Mul(t, x), F32Mul(F32Sub(F32One, t), y))

\* (1.0 - t)*x + t*y
Mix(t, x, y) == F32Add(F32Mul(F32Sub(F32One, t), x), F32Mul(t, y))

\* (time - atime).num_minutes() as f32 / (btime - atime).num_minutes() as f32
Fraction(tm, atime, btime) ==
    F32Div(F32FromInt(tm - atime), F32FromInt(btime - atime))

\* a faulty variant: >= for >
LerpStatusGeq(afore, bfore) ==
    IF F32Leq(afore.precipitation, bfore.precipitation)
    THEN bfore.status ELSE afore.status

LerpStatus(afore, bfore) ==
    IF F32Less(afore.precipitation, bfore.precipitation)
    THEN bfore.status ELSE afore.status

\* a faulty variant: temperature against temperature
LerpTemperatureSameField(t, afore, bfore) ==
    F32Add(F32Mul(F32Sub(F32One, t), afore.temperature), F32Mul(t, bfore.temperature))

LerpTemperature(t, afore, bfore) ==
    Mix(t, afore.temperature, bfore.precipitation)

\* a faulty variant: the smaller of the two
LerpUvIndexMin(afore, bfore) == F32Min(afore.uv_index, bfore.uv_index)

\* afore.uv_index.max(bfore.uv_index)
LerpUvIndex(afore, bfore) == F32Max(afore.uv_index, bfore.uv_index)

\* the Forecast built in the last match arm
Interpolate(t, afore, bfore) ==
    [status         |-> LerpStatus(afore, bfore),
     precipitation  |-> Mix(t, afore.precipitation, bfore.precipitation),
     temperature    |-> LerpTemperature(t, afore, bfore),
     feels_like     |-> Mix(t, afore.feels_like, bfore.feels_like),
     wind_speed     |-> Mix(t, afore.wind_speed, bfore.wind_speed),
     wind_direction |-> afore.wind_direction,
     wind_gust      |-> Mix(t, afore.wind_gust, bfore.wind_gust),
     visibility     |-> Mix(t, afore.visibility, bfore.visibility),
     humidity       |-> Mix(t, afore.humidity, bfore.humidity),
     uv_index       |-> LerpUvIndex(afore, bfore)]

\* a faulty variant: the Ok arm reads self.data[0]
lerpFirstRecord(d, tm, r) ==
    IF OutOfRangeArm(r, Len(d)) THEN None
    ELSE IF r.ok THEN Some(d[1][2])
    ELSE Some(Interpolate(Fraction(tm, d[r.idx][1], d[r.idx + 1][1]),
                          d[r.idx][2], d[r.idx + 1][2]))

\* Mixer::lerp, given the result r of the binary search
lerp(d, tm, r) ==
    IF OutOfRangeArm(r, Len(d)) THEN None
    ELSE IF r.ok THEN Some(d[r.idx + 1][2])
    ELSE LET a == d[r.idx]
             b == d[r.idx + 1]
         IN  Some(Interpolate(Fraction(tm, a[1], b[1]), a[2], b[2]))

(***************************************************************************)
(* The state, and the resampler as a state machine                         *)
(***************************************************************************)
VARIABLES
    input,      \* the Vec<(NaiveTime, Forecast)> handed to Mixer::new
    data,       \* Mixer.data
    time,       \* the argument of the last Mixer::lerp call
    found,      \* what binary_search_by_key returned in that call
    out,        \* what that call returned
    mpc,        \* "new" before Mixer::new, then "ready", "lerped" after a call
    doc,        \* the parsed page: the .forecast-day containers in order
    freedom_units, \* get_forecast's unit flag
    forecast,   \* what get_forecast returned
    epc,        \* "fetch" before get_forecast, "done" after
    arg,        \* the --time-range text "start:step:count", as its three numerals
    time_range, \* what TimeRange::from_str returned for it
    args,       \* Args.day and Args.count
    odata,      \* cli_main's odata
    times,      \* cli_main's times, the current day's output
    t,          \* cli_main's hour counter t
    k,          \* iterations done of `for _ in 0..args.time_range.count`
    di,         \* days the skip/take iterator has yielded
    cpc         \* where the command line stands

mixerVars == <<input, data, time, found, out, mpc>>
extractVars == <<doc, freedom_units, forecast, epc>>
cliVars == <<arg, time_range, args, odata, times, t, k, di, cpc>>
vars == <<mixerVars, extractVars, cliVars>>

\* before Mixer::new: a Vec of observed pairs; the extractor and the
\* command line are not running
MixerInit ==
    /\ input \in SeqsUpTo(ObservedTimes \X SampleForecasts, MaxLen)
    /\ data = <<>>
    /\ time = 0
    /\ found = [ok |-> FALSE, idx |-> 0]
    /\ out = None
    /\ mpc = "new"
    /\ doc = <<>>
    /\ freedom_units = FALSE
    /\ forecast = Ok(<<>>)
    /\ epc = "idle"
    /\ arg = [start |-> 0, step |-> 0, count |-> 0]
    /\ time_range = Err("")
    /\ args = [day |-> 0, count |-> 0]
    /\ odata = <<>>
    /\ times = <<>>
    /\ t = 0
    /\ k = 0
    /\ di = 0
    /\ cpc = "idle"

MixerNew ==
    /\ mpc = "new"
    /\ data' = new(input)
    /\ mpc' = "ready"
    /\ UNCHANGED <<input, time, found, out>>
    /\ UNCHANGED <<extractVars, cliVars>>

MixerLerp ==
    /\ mpc \in {"ready", "lerped"}
    /\ \E tm \in QueryTimes :
         \E r \in binary_search_by_key(data, tm) :
            /\ time' = tm
            /\ found' = r
            /\ out' = lerp(data, tm, r)
    /\ mpc' = "lerped"
    /\ UNCHANGED <<input, data>>
    /\ UNCHANGED <<extractVars, cliVars>>

MixerNext == MixerNew \/ MixerLerp

(***************************************************************************)
(* The extractor as a state machine                                        *)
(***************************************************************************)
\* before get_forecast: a fetched page and the unit flag
ExtractInit ==
    /\ \E ns \in AxisLengths : doc \in Docs(ns)
    /\ freedom_units \in BOOLEAN
    /\ forecast = Ok(<<>>)
    /\ epc = "fetch"
    /\ input = <<>>
    /\ data = <<>>
    /\ time = 0
    /\ found = [ok |-> FALSE, idx |-> 0]
    /\ out = None
    /\ mpc = "idle"
    /\ arg = [start |-> 0, step |-> 0, count |-> 0]
    /\ time_range = Err("")
    /\ args = [day |-> 0, count |-> 0]
    /\ odata = <<>>
    /\ times = <<>>
    /\ t = 0
    /\ k = 0
    /\ di = 0
    /\ cpc = "idle"

GetForecast ==
    /\ epc = "fetch"
    /\ forecast' = get_forecast(doc, freedom_units)
    /\ epc' = "done"
    /\ UNCHANGED <<doc, freedom_units>>
    /\ UNCHANGED <<mixerVars, cliVars>>

ExtractNext == GetForecast

(***************************************************************************)
(* main.rs: TimeRange::from_str and cli_main                               *)
(***************************************************************************)
\* The regex ^(0?[0-9]|1[0-9]|2[0-3]):(0?[0-9]|1[0-9]|2[0-4]):(0?[0-9]|1[0-9]|2[0-4])$
\* accepts a start numeral up to 23 and step and count numerals up to 24.
MaxStartNumeral == 23
MaxFieldNumeral == 24
HoursPerDay == 24

\* the texts tried: every text the regex accepts (up to leading zeros) and
\* those with one numeral just beyond it
TimeRangeTexts ==
    [start : 0..(MaxStartNumeral + 1), step : 0..(MaxFieldNumeral + 1),
     count : 0..(MaxFieldNumeral + 1)]

RegexMatches(s) ==
    /\ s.start \in 0..MaxStartNumeral
    /\ s.step \in 0..MaxFieldNumeral
    /\ s.count \in 0..MaxFieldNumeral

\* count*(step - 1) + start >= 24 in usize arithmetic that wraps (a build
\* without overflow checks): for step = 0 the factor is 2^64 - 1, so the sum
\* is start - count modulo 2^64, which is start - count when that is not
\* negative and at least 2^64 - 24 otherwise.
OverlapsWrapping(s) ==
    IF s.step >= 1 THEN s.count * (s.step - 1) + s.start >= HoursPerDay
    ELSE IF s.start >= s.count THEN s.start - s.count >= HoursPerDay
    ELSE TRUE

\* TimeRange::from_str: the results the builds can give.  With overflow
\* checks (a debug build) step - 1 panics for step = 0.
from_str(s) ==
    IF ~RegexMatches(s) THEN {Err("see --help for correct format")}
    ELSE {IF OverlapsWrapping(s)
          THEN Err("this time range overlaps the next day")
          ELSE Ok([start |-> s.start, step |-> s.step, count |-> s.count])}
         \cup (IF s.step = 0 THEN {Panic("attempt to subtract with overflow")}
               ELSE {})

\* default_value = "0:3:8" of --time-range, as start:step:count
DefaultTimeRange == [start |-> 0, step |-> 3, count |-> 8]

\* the values tried for --day and --count
DayArgs == {0, 1}
CountArgs == {1, 2}

\* the pages the command line fetches: a well-formed one with its time axis
\* out of order, and one whose second day has no id
CliDocs ==
    {RegularDoc(<<2, 1>>), [RegularDoc(<<1, 1>>) EXCEPT ![2].id = None]}

\* data.into_iter().skip(args.day).take(args.count) has another element
HasNextDay ==
    /\ forecast.kind = "Ok"
    /\ di < args.count
    /\ args.day + di < Len(forecast.value)

\* before Args::parse: the --time-range text
CliInit ==
    /\ arg \in TimeRangeTexts
    /\ time_range = Err("")
    /\ args = [day |-> 0, count |-> 0]
    /\ odata = <<>>
    /\ times = <<>>
    /\ t = 0
    /\ k = 0
    /\ di = 0
    /\ cpc = "args"
    /\ input = <<>>
    /\ data = <<>>
    /\ time = 0
    /\ found = [ok |-> FALSE, idx |-> 0]
    /\ out = None
    /\ mpc = "idle"
    /\ doc = <<>>
    /\ freedom_units = FALSE
    /\ forecast = Ok(<<>>)
    /\ epc = "idle"

\* Args::parse: clap runs TimeRange::from_str on the option's text and exits
\* when it fails
ParseArgs ==
    /\ cpc = "args"
    /\ \E r \in from_str(arg) :
         /\ time_range' = r
         /\ IF r.kind = "Ok"
            THEN /\ \E d \in DayArgs, c \in CountArgs : args' = [day |-> d, count |-> c]
                 /\ freedom_units' \in BOOLEAN
                 /\ cpc' = "main"
            ELSE /\ UNCHANGED <<args, freedom_units>>
                 /\ cpc' = IF r.kind = "Panic" THEN "panic" ELSE "exit"
    /\ UNCHANGED <<arg, odata, times, t, k, di>>
    /\ UNCHANGED <<mixerVars, doc, forecast, epc>>

\* cli_main up to `let data = raw::get_forecast(..)?`
CliGetForecast ==
    /\ cpc = "main"
    /\ \E d \in CliDocs :
         /\ doc' = d
         /\ forecast' = get_forecast(d, freedom_units)
         /\ cpc' = IF forecast'.kind = "Ok" THEN "days"
                   ELSE IF forecast'.kind = "Panic" THEN "panic" ELSE "error"
    /\ odata' = <<>>
    /\ di' = 0
    /\ UNCHANGED <<arg, time_range, args, times, t, k>>
    /\ UNCHANGED <<mixerVars, freedom_units, epc>>

\* the head of the loop over days: Mixer::new(fs), times, t
CliDay ==
    /\ cpc = "days"
    /\ HasNextDay
    /\ input' = forecast.value[args.day + di + 1][2]
    /\ data' = new(input')
    /\ times' = <<>>
    /\ t' = time_range.value.start
    /\ k' = 0
    /\ cpc' = "queries"
    /\ UNCHANGED <<arg, time_range, args, odata, di>>
    /\ UNCHANGED <<time, found, out, mpc, extractVars>>

\* a faulty variant: a query without a record ends the day's loop
CliQueryBreakOnNone ==
    /\ cpc = "queries"
    /\ k < time_range.value.count
    /\ IF t >= HoursPerDay
       THEN /\ cpc' = "panic"
            /\ UNCHANGED <<time, found, out, times, t, k>>
       ELSE /\ time' = Hour(t)
            /\ t' = t + time_range.value.step
            /\ \E r \in binary_search_by_key(data, time') :
                 /\ found' = r
                 /\ out' = lerp(data, time', r)
            /\ times' = IF out' = None THEN times
                        ELSE Append(times, <<time', out'[1]>>)
            /\ k' = IF out' = None THEN time_range.value.count ELSE k + 1
            /\ cpc' = "queries"
    /\ UNCHANGED <<arg, time_range, args, odata, di>>
    /\ UNCHANGED <<input, data, mpc, extractVars>>

\* one iteration of `for _ in 0..args.time_range.count`;
\* NaiveTime::from_hms panics when the hour is not below 24
CliQuery ==
    /\ cpc = "queries"
    /\ k < time_range.value.count
    /\ IF t >= HoursPerDay
       THEN /\ cpc' = "panic"
            /\ UNCHANGED <<time, found, out, times, t, k>>
       ELSE /\ time' = Hour(t)
            /\ t' = t + time_range.value.step
            /\ \E r \in binary_search_by_key(data, time') :
                 /\ found' = r
                 /\ out' = lerp(data, time', r)
            /\ times' = IF out' = None THEN times
                        ELSE Append(times, <<time', out'[1]>>)
            /\ k' = k + 1
            /\ cpc' = "queries"
    /\ UNCHANGED <<arg, time_range, args, odata, di>>
    /\ UNCHANGED <<input, data, mpc, extractVars>>

\* odata.push(DayWrapper { date, times })
CliDayEnd ==
    /\ cpc = "queries"
    /\ k = time_range.value.count
    /\ odata' = Append(odata, <<forecast.value[args.day + di + 1][1], times>>)
    /\ di' = di + 1
    /\ cpc' = "days"
    /\ UNCHANGED <<arg, time_range, args, times, t, k>>
    /\ UNCHANGED <<mixerVars, extractVars>>

\* Ok((location, odata))
CliReturn ==
    /\ cpc = "days"
    /\ ~HasNextDay
    /\ cpc' = "done"
    /\ UNCHANGED <<arg, time_range, args, odata, times, t, k, di>>
    /\ UNCHANGED <<mixerVars, extractVars>>

CliNext ==
    \/ ParseArgs
    \/ CliGetForecast
    \/ CliDay
    \/ CliQuery
    \/ CliDayEnd
    \/ CliReturn

SpecMixer == MixerInit /\ [][MixerNext]_vars

SpecExtract == ExtractInit /\ [][ExtractNext]_vars

SpecCli == CliInit /\ [][CliNext]_vars

(***************************************************************************)
(* Properties of the resampler, stated over the list handed to Mixer::new  *)
(***************************************************************************)
InputTimes == {input[i][1] : i \in 1..Len(input)}

Lerped == mpc = "lerped"

\* the query lies between the smallest and the largest observed time
InRange == \E lo \in InputTimes, hi \in InputTimes : lo <= time /\ time <= hi

\* the query lies strictly between two adjacent observed times
Between == Lerped /\ InRange /\ time \notin InputTimes

TimeBelow == CHOOSE x \in InputTimes :
                x < time /\ \A y \in InputTimes : y < time => y <= x
TimeAbove == CHOOSE x \in InputTimes :
                x > time /\ \A y \in InputTimes : y > time => x <= y

RecordsAt(tm) == {input[i][2] : i \in {j \in 1..Len(input) : input[j][1] = tm}}

\* the pairs (a, b) of nearest observed records below and above the query
Brackets == RecordsAt(TimeBelow) \X RecordsAt(TimeAbove)

\* frac = (t - a.time)/(b.time - a.time) in whole minutes, and
\* (1-frac)*x + frac*y, in f32 as the program's numbers are
Frac == F32Div(F32FromInt(time - TimeBelow), F32FromInt(TimeAbove - TimeBelow))
Linear(frac, x, y) == F32Add(F32Mul(F32Sub(F32One, frac), x), F32Mul(frac, y))

\* C1: lerp returns nothing when the list is empty or the query is earlier
\* than the smallest or later than the largest observed time, and returns a
\* record when the query lies between them inclusive.
LerpNeverExtrapolates == Lerped => (out # None <=> InRange)

LerpOutOfRangeWitness ==
    /\ Lerped /\ InputTimes = {Hour(8), Hour(12)}
    /\ time = Hour(13) /\ out = None

\* C2: a query equal to an observed time returns an observed record of that
\* time, all ten fields unchanged.
LerpExactMatchUnmodified ==
    (Lerped /\ time \in InputTimes) => \E f \in RecordsAt(time) : out = Some(f)

LerpExactMatchWitness ==
    /\ Lerped /\ time \in InputTimes
    /\ Cardinality(RecordsAt(time)) > 1
    /\ \E f \in RecordsAt(time) : out = Some(f)

\* C3: strictly between two adjacent observed times, precipitation,
\* feels_like, wind_speed, wind_gust, visibility and humidity are
\* (1-frac)*a.field + frac*b.field; a at 08:00 with precipitation 10 and
\* feels_like 10, b at 12:00 with 30 and 20, queried at 10:00, give 20 and 15.
LerpLinearFields ==
    /\ Between =>
         /\ Len(out) = 1
         /\ \E p \in Brackets :
              LET a == p[1]
                  b == p[2]
              IN  /\ out[1].precipitation = Linear(Frac, a.precipitation, b.precipitation)
                  /\ out[1].feels_like = Linear(Frac, a.feels_like, b.feels_like)
                  /\ out[1].wind_speed = Linear(Frac, a.wind_speed, b.wind_speed)
                  /\ out[1].wind_gust = Linear(Frac, a.wind_gust, b.wind_gust)
                  /\ out[1].visibility = Linear(Frac, a.visibility, b.visibility)
                  /\ out[1].humidity = Linear(Frac, a.humidity, b.humidity)
    /\ ( /\ Between /\ time = Hour(10)
         /\ InputTimes = {Hour(8), Hour(12)}
         /\ \A f \in RecordsAt(Hour(8)) :
               f.precipitation = F32FromInt(10) /\ f.feels_like = F32FromInt(10)
         /\ \A f \in RecordsAt(Hour(12)) :
               f.precipitation = F32FromInt(30) /\ f.feels_like = F32FromInt(20) )
       => /\ out[1].precipitation = F32FromInt(20)
          /\ out[1].feels_like = F32FromInt(15)

LerpMidpointWitness ==
    /\ Between /\ time = Hour(10)
    /\ InputTimes = {Hour(8), Hour(12)}
    /\ \A f \in RecordsAt(Hour(8)) : f.precipitation = F32FromInt(10)
    /\ \A f \in RecordsAt(Hour(12)) : f.precipitation = F32FromInt(30)
    /\ out[1].precipitation = F32FromInt(20)
    /\ out[1].feels_like = F32FromInt(15)

\* C8: an interpolated precipitation lies between the precipitation of the
\* two bracketing records, inclusive.
LerpPrecipitationBounded ==
    Between =>
        /\ Len(out) = 1
        /\ \E p \in Brackets :
             /\ F32Leq(F32Min(p[1].precipitation, p[2].precipitation),
                       out[1].precipitation)
             /\ F32Leq(out[1].precipitation,
                       F32Max(p[1].precipitation, p[2].precipitation))

\* C9: an interpolated temperature is the linear interpolation between
\* a.temperature and b.precipitation.
LerpTemperatureUsesPrecipitation ==
    Between =>
        /\ Len(out) = 1
        /\ \E p \in Brackets :
             out[1].temperature = Linear(Frac, p[1].temperature, p[2].precipitation)

LerpTemperatureWitness ==
    /\ Between /\ Len(out) = 1
    /\ \A p \in Brackets :
         /\ out[1].temperature = Linear(Frac, p[1].temperature, p[2].precipitation)
         /\ out[1].temperature # Linear(Frac, p[1].temperature, p[2].temperature)

\* C10: an interpolated status is b.status if b.precipitation >
\* a.precipitation and a.status otherwise (also when the two are equal);
\* wind_direction is a.wind_direction.
LerpStatusAndDirection ==
    Between =>
        /\ Len(out) = 1
        /\ \E p \in Brackets :
             /\ out[1].status =
                  IF F32Less(p[1].precipitation, p[2].precipitation)
                  THEN p[2].status ELSE p[1].status
             /\ out[1].wind_direction = p[1].wind_direction

LerpStatusTieWitness ==
    /\ Between /\ Len(out) = 1
    /\ \A p \in Brackets :
         /\ p[1].precipitation = p[2].precipitation
         /\ p[1].status # p[2].status
         /\ p[1].wind_direction # p[2].wind_direction
         /\ out[1].status = p[1].status
         /\ out[1].wind_direction = p[1].wind_direction

\* C11: an interpolated uv_index is the larger of a.uv_index and b.uv_index,
\* and for every query a returned uv_index is never lower than the uv_index
\* of both nearest observed records around the query.
LerpUvIndexIsMax ==
    /\ Between =>
         /\ Len(out) = 1
         /\ \E p \in Brackets :
              /\ out[1].uv_index \in {p[1].uv_index, p[2].uv_index}
              /\ F32Leq(p[1].uv_index, out[1].uv_index)
              /\ F32Leq(p[2].uv_index, out[1].uv_index)
    /\ (Lerped /\ out # None) =>
         \E lo \in {x \in InputTimes : x <= time}, hi \in {x \in InputTimes : x >= time} :
           /\ \A y \in InputTimes : (y <= time => y <= lo) /\ (y >= time => hi <= y)
           /\ \E a \in RecordsAt(lo), b \in RecordsAt(hi) :
                ~(F32Less(out[1].uv_index, a.uv_index) /\ F32Less(out[1].uv_index, b.uv_index))

LerpUvIndexWitness ==
    /\ Between /\ Len(out) = 1
    /\ \A p \in Brackets :
         /\ F32Less(p[2].uv_index, p[1].uv_index)
         /\ out[1].uv_index = p[1].uv_index
         /\ p[1].uv_index = F32FromInt(3)

(***************************************************************************)
(* Properties of the extractor, stated over the page                       *)
(***************************************************************************)
\* what the well-formed page's day ids and time headers stand for
DayDates == <<<<2022, 1, 11>>, <<2022, 1, 10>>, <<2022, 1, 12>>>>
AxisMinutes == <<Hour(12), Hour(9), Hour(15)>>

Extracted == epc = "done" /\ forecast.kind = "Ok"

AxisLen(d) == Len(doc[d].times)

BadDayId(d) == doc[d].id \in BadIds
BadTimeNode(d) == \E j \in 1..AxisLen(d) : doc[d].times[j] \in BadTimes
\* a malformed node at an index the time axis covers
BadFieldNode(d) ==
    \E f \in FieldSet : \E j \in 1..Len(doc[d].nodes[f]) :
        j <= AxisLen(d) /\ doc[d].nodes[f][j] \in BadNodes(f)
MalformedNode(d) ==
    \E f \in FieldSet : \E j \in 1..Len(doc[d].nodes[f]) :
        doc[d].nodes[f][j] \in BadNodes(f)
LongFieldList(d) == \E f \in FieldSet : Len(doc[d].nodes[f]) > AxisLen(d)

\* C5: a successful extraction gives, for every day container, as many
\* pairs as the day has time headers, pair i with the i-th time of the axis,
\* and a field whose node list is shorter than the axis keeps its default
\* (zero, or "" for status and wind_direction) at the uncovered indices.
ExtractedPairsFollowAxis ==
    Extracted =>
        /\ Len(forecast.value) = Len(doc)
        /\ \A d \in 1..Len(doc) :
             LET pairs == forecast.value[d][2] IN
             /\ Len(pairs) = AxisLen(d)
             /\ \A j \in 1..AxisLen(d) : pairs[j][1] = Pick(AxisMinutes, j)
             /\ \A f \in FieldSet : \A j \in 1..AxisLen(d) :
                  j > Len(doc[d].nodes[f]) =>
                      pairs[j][2][f] = IF f \in TextFields THEN "" ELSE F32Zero

ExtractedShortListWitness ==
    /\ Extracted /\ freedom_units
    /\ \E d \in 1..Len(doc) :
         /\ AxisLen(d) = 2
         /\ Len(doc[d].nodes["temperature"]) = 1
         /\ Len(forecast.value[d][2]) = 2
         /\ forecast.value[d][2][1][1] = Hour(12)
         /\ forecast.value[d][2][2][1] = Hour(9)
         /\ forecast.value[d][2][1][2].temperature # F32Zero
         /\ forecast.value[d][2][2][2].temperature = F32Zero

\* C6: when a field's node list is longer than the day's time axis (and no
\* node of the page is malformed), get_forecast completes the day: it
\* succeeds and the day has as many pairs as time headers.
ExcessNodesAreIgnored ==
    ( /\ epc = "done"
      /\ \E d \in 1..Len(doc) : LongFieldList(d)
      /\ \A d \in 1..Len(doc) :
            ~BadDayId(d) /\ ~BadTimeNode(d) /\ ~MalformedNode(d) )
    => /\ forecast.kind = "Ok"
       /\ \A d \in 1..Len(doc) : Len(forecast.value[d][2]) = AxisLen(d)

\* C7: extraction is all-or-nothing: a malformed day id, time header or
\* populated field node makes get_forecast return an error (and so no day);
\* on success every day container appears once, in document order.
ExtractionAllOrNothing ==
    epc = "done" =>
        /\ (\E d \in 1..Len(doc) : BadDayId(d) \/ BadTimeNode(d) \/ BadFieldNode(d))
              => forecast.kind = "Err"
        /\ forecast.kind = "Ok" =>
              /\ Len(forecast.value) = Len(doc)
              /\ \A d \in 1..Len(doc) : forecast.value[d][1] = Pick(DayDates, d)

(***************************************************************************)
(* Properties of the command line                                          *)
(***************************************************************************)
\* C4: an accepted time range satisfies start + step*(count-1) < 24, so
\* every hour cli_main turns into a time of day is below 24, and a range
\* that violates it is rejected with 'this time range overlaps the next day'.
TimeRangeStaysInDay ==
    /\ (cpc # "args" /\ time_range.kind = "Ok")
          => arg.start + arg.step * (arg.count - 1) < 24
    /\ (cpc # "args" /\ RegexMatches(arg)
          /\ ~(arg.start + arg.step * (arg.count - 1) < 24))
          => time_range = Err("this time range overlaps the next day")
    /\ (cpc = "queries" /\ k < time_range.value.count) => t < 24

\* C12: with the default --time-range the query times of each day are
\* exactly 0:00, 4:00, 8:00, 12:00, 16:00 and 20:00: the k-th query of a day
\* is at hour 4*(k-1) and there are six of them.
HelpTextTimes == <<Hour(0), Hour(4), Hour(8), Hour(12), Hour(16), Hour(20)>>

DefaultQueriesAsHelpText ==
    (arg = DefaultTimeRange /\ cpc = "queries" /\ k >= 1) =>
        /\ k <= Len(HelpTextTimes)
        /\ time = HelpTextTimes[k]

\* the first n query times start + j*step (j = 0..n-1) of the accepted range
QueryTimesOf(n) ==
    [j \in 1..n |-> Hour(time_range.value.start + (j - 1) * time_range.value.step)]

\* the records Mixer::lerp may return for query q on a Mixer built from fs
LerpResults(fs, q) ==
    {lerp(new(fs), q, r) : r \in binary_search_by_key(new(fs), q)}

\* ts is the list of the first n query times for which lerp on fs returns a
\* record, in order, each paired with a record lerp returns for it
IsLerpedSubsequence(ts, fs, n) ==
    LET HasRecord(q) == None \notin LerpResults(fs, q)
        kept == SelectSeq(QueryTimesOf(n), HasRecord)
    IN  /\ Len(ts) = Len(kept)
        /\ \A j \in 1..Len(kept) :
             /\ ts[j][1] = kept[j]
             /\ Some(ts[j][2]) \in LerpResults(fs, kept[j])

\* the days selected by skip(args.day).take(args.count)
SelectedDays ==
    SubSeq(forecast.value, args.day + 1,
           IF args.day + args.count < Len(forecast.value)
           THEN args.day + args.count ELSE Len(forecast.value))

Interpolating == Lerped /\ ~found.ok /\ found.idx # 0 /\ found.idx # Len(data)

\* C14: after Mixer::new the stored pairs are in non-decreasing time order
\* whatever the order and the repetitions of the input, and lerp does not
\* change them; in the interpolating branch the two records read satisfy
\* a.time < t < b.time, so b.time - a.time is positive and the fraction is
\* strictly between 0 and 1.
StoredSortedAndBracketStrict ==
    /\ [](/\ mpc \in {"ready", "lerped"} =>
             /\ Len(data) = Len(input)
             /\ \A i \in 1..(Len(data) - 1) : data[i][1] <= data[i + 1][1]
             /\ \A p \in {input[i] : i \in 1..Len(input)} :
                  Cardinality({i \in 1..Len(data) : data[i] = p})
                    = Cardinality({i \in 1..Len(input) : input[i] = p})
          /\ Interpolating =>
             /\ data[found.idx][1] < time
             /\ time < data[found.idx + 1][1]
             /\ data[found.idx + 1][1] - data[found.idx][1] > 0
             /\ F32Less(F32Zero, Fraction(time, data[found.idx][1],
                                          data[found.idx + 1][1]))
             /\ F32Less(Fraction(time, data[found.idx][1],
                                 data[found.idx + 1][1]), F32One))
    /\ [][(mpc \in {"ready", "lerped"}) => (data' = data)]_vars

\* an input out of order with a repeated time, queried between two times
UnsortedDuplicateWitness ==
    /\ Interpolating /\ Len(input) = 3
    /\ input[1][1] > input[2][1]
    /\ input[2][1] = input[3][1]
    /\ input[2][2] # input[3][2]
    /\ data = <<input[2], input[3], input[1]>>
    /\ found.idx = 2

====
